---- MODULE Spec2Model ----
(***************************************************************************)
(* Model of the tushare client library: the Tushare handle, the immutable  *)
(* QueryBuilder (params / addparam / fields / build) and QueryBuilder's    *)
(* query(): POST, decode, code check, json_reformat, empty check and       *)
(* dataframe construction.                                                  *)
(***************************************************************************)
EXTENDS Integers, Sequences, FiniteSets, TLC

VARIABLES
    tushare,    \* the Tushare handle: token, api_endpoint (tushare.rs 4-10)
    builders,   \* the QueryBuilder values created so far (builder.rs 51-56)
    path,       \* per builder, the params/addparam/fields calls that derived it
    pc,         \* position inside query() (builder.rs 180-215); "idle" outside
    cur,        \* index of the builder query() runs on, 0 outside a call
    request,    \* tushare_request (builder.rs 181)
    posts,      \* number of POSTs sent by the call in progress (builder.rs 187-190)
    http,       \* outcome of send / error_for_status / text (builder.rs 190-192)
    resp_text,  \* the response body (builder.rs 187-192)
    resp_json,  \* the decoded body (builder.rs 194)
    data_json,  \* the reshaped rows (builder.rs 206)
    data_str,   \* the rows as JSON text (builder.rs 207)
    log,        \* the stages of query() executed by the call in progress
    result      \* what query() returns

vars == <<tushare, builders, path, pc, cur, request, posts, http,
          resp_text, resp_json, data_json, data_str, log, result>>

\* ------------------------------------------------------------------ bounds
MaxBuilders == 3
MaxFields == 2
MaxItems == 2
MaxRow == 2

\* ------------------------------------------------------- input universes
Tokens == {"tok"}
ApiNames == {"daily", "stock_basic"}
Keys == {"trade_date", "ts_code"}
Vals == {"20240424", "000001.SZ"}
FieldStrs == {"ts_code,open", "close"}

\* ------------------------------------------------------------ Option<T>
None == [some |-> FALSE]
Some(x) == [some |-> TRUE, val |-> x]

\* ------------------------------------------------- serde_json::Value
JNull == [t |-> "null"]
JBool(b) == [t |-> "bool", b |-> b]
\* Number that fits i64 (PosInt <= i64::MAX or NegInt)
JInt(n) == [t |-> "int", n |-> n]
\* Number held as u64 above i64::MAX
JBigUInt == [t |-> "biguint"]
\* Number held as f64, written with its text
JFloat(txt) == [t |-> "float", f |-> txt]
JStr(s) == [t |-> "str", s |-> s]
JArr(a) == [t |-> "arr", a |-> a]
JObj(o) == [t |-> "obj", o |-> o]

as_i64(v) == IF v.t = "int" THEN Some(v.n) ELSE None
as_str(v) == IF v.t = "str" THEN Some(v.s) ELSE None
as_array(v) == IF v.t = "arr" THEN Some(v.a) ELSE None

\* Value's Index<&str>: Null unless the value is an object holding the key
Idx(v, k) == IF v.t = "obj" /\ k \in DOMAIN v.o THEN v.o[k] ELSE JNull

unwrap_or(opt, dflt) == IF opt.some THEN opt.val ELSE dflt

\* ------------------------------------------------------------------ Dict
Dicts == UNION {[D -> Vals] : D \in SUBSET Keys}

Insert(d, k, v) == [x \in DOMAIN d \cup {k} |-> IF x = k THEN v ELSE d[x]]

\* HashMap::into_iter: the entries in the map's iteration order (one order
\* is picked; keys are unique inside one map)
RECURSIVE into_iter(_)
into_iter(d) ==
    IF DOMAIN d = {} THEN <<>>
    ELSE LET k == CHOOSE x \in DOMAIN d : TRUE
         IN  <<<<k, d[k]>>>> \o into_iter([x \in DOMAIN d \ {k} |-> d[x]])

\* Iterator::collect into a HashMap: inserts in order, later entries replace
RECURSIVE collect(_)
collect(s) ==
    IF s = <<>> THEN <<>>
    ELSE LET n == Len(s)
         IN  Insert(collect(SubSeq(s, 1, n - 1)), s[n][1], s[n][2])

mergedict_prewins(map_pre, map_post) ==
    collect(into_iter(map_post) \o into_iter(map_pre))

mergedict(map_pre, map_post) ==
    collect(into_iter(map_pre) \o into_iter(map_post))

\* ---------------------------------------------------------- QueryBuilder
new(api_name) == [api_name |-> api_name, params |-> None, fields |-> None]

params_merging(self, p) ==
    [api_name |-> self.api_name,
     params |-> IF self.params.some THEN Some(mergedict(self.params.val, p))
                ELSE Some(p),
     fields |-> self.fields]

params(self, p) ==
    [api_name |-> self.api_name, params |-> Some(p), fields |-> self.fields]

addparam(self, k, v) ==
    LET new_paramdict == Insert(<<>>, k, v)
        paramdict == IF self.params.some
                     THEN mergedict(self.params.val, new_paramdict)
                     ELSE new_paramdict
    IN  [api_name |-> self.api_name, params |-> Some(paramdict),
         fields |-> self.fields]

fields(self, f) ==
    [api_name |-> self.api_name, params |-> self.params, fields |-> Some(f)]

DictValue(p) == JObj([k \in DOMAIN p |-> JStr(p[k])])

build_dropping_empty(self, tu) ==
    [api_name |-> JStr(self.api_name),
     token |-> JStr(tu.token),
     params |-> IF self.params.some /\ DOMAIN self.params.val # {}
                THEN DictValue(self.params.val) ELSE JNull,
     fields |-> IF self.fields.some THEN JStr(self.fields.val) ELSE JNull]

build(self, tu) ==
    [api_name |-> JStr(self.api_name),
     token |-> JStr(tu.token),
     params |-> IF self.params.some THEN DictValue(self.params.val) ELSE JNull,
     fields |-> IF self.fields.some THEN JStr(self.fields.val) ELSE JNull]

\* ------------------------------------------------------------ the state
NoRequest == [api_name |-> JNull, token |-> JNull, params |-> JNull,
              fields |-> JNull]
NoResult == [kind |-> "none"]

Idle ==
    /\ pc = "idle" /\ cur = 0 /\ request = NoRequest /\ posts = 0
    /\ http = "none" /\ resp_text = None /\ resp_json = JNull
    /\ data_json = <<>> /\ data_str = "" /\ log = <<>> /\ result = NoResult

TushareNew(token) == [token |-> token, api_endpoint |-> "http://api.tushare.pro"]

InitBuilder ==
    /\ tushare \in {TushareNew(tk) : tk \in Tokens}
    /\ builders = <<>>
    /\ path = <<>>
    /\ Idle

QueryIdle ==
    UNCHANGED <<pc, cur, request, posts, http, resp_text, resp_json,
                data_json, data_str, log, result>>

\* Tushare::querybuilder
QueryBuilderNew(api_name) ==
    /\ pc = "idle" /\ Len(builders) < MaxBuilders
    /\ builders' = Append(builders, new(api_name))
    /\ path' = Append(path, <<>>)
    /\ UNCHANGED tushare /\ QueryIdle

ParamsInPlace(i, p) ==
    /\ pc = "idle" /\ Len(builders) < MaxBuilders
    /\ builders' = Append([builders EXCEPT ![i] = params(builders[i], p)],
                          params(builders[i], p))
    /\ path' = Append(path, Append(path[i], [op |-> "params", from |-> i, p |-> p]))
    /\ UNCHANGED tushare /\ QueryIdle

Params(i, p) ==
    /\ pc = "idle" /\ Len(builders) < MaxBuilders
    /\ builders' = Append(builders, params(builders[i], p))
    /\ path' = Append(path, Append(path[i], [op |-> "params", from |-> i, p |-> p]))
    /\ UNCHANGED tushare /\ QueryIdle

AddParam(i, k, v) ==
    /\ pc = "idle" /\ Len(builders) < MaxBuilders
    /\ builders' = Append(builders, addparam(builders[i], k, v))
    /\ path' = Append(path, Append(path[i], [op |-> "addparam", from |-> i, k |-> k, v |-> v]))
    /\ UNCHANGED tushare /\ QueryIdle

Fields(i, f) ==
    /\ pc = "idle" /\ Len(builders) < MaxBuilders
    /\ builders' = Append(builders, fields(builders[i], f))
    /\ path' = Append(path, Append(path[i], [op |-> "fields", from |-> i, f |-> f]))
    /\ UNCHANGED tushare /\ QueryIdle

\* query(), lines 181-185: the request envelope is built and logged
QueryBuild(i) ==
    /\ pc = "idle"
    /\ cur' = i
    /\ request' = build(builders[i], tushare)
    /\ log' = Append(log, "build")
    /\ pc' = "built"
    /\ UNCHANGED <<tushare, builders, path, posts, http, resp_text,
                   resp_json, data_json, data_str, result>>

NextBuilder ==
    \/ \E a \in ApiNames : QueryBuilderNew(a)
    \/ \E i \in DOMAIN builders : \E p \in Dicts : Params(i, p)
    \/ \E i \in DOMAIN builders : \E k \in Keys : \E v \in Vals : AddParam(i, k, v)
    \/ \E i \in DOMAIN builders : \E f \in FieldStrs : Fields(i, f)
    \/ \E i \in DOMAIN builders : QueryBuild(i)

SpecBuilder == InitBuilder /\ [][NextBuilder]_vars

\* ------------------------------------------------------------- rendering
DigitText == <<"0", "1", "2", "3", "4", "5", "6", "7", "8", "9">>

\* Display of a non-negative integer ({i} in format!, to_string of a Number)
RECURSIVE NatText(_)
NatText(n) ==
    IF n < 10 THEN DigitText[n + 1]
    ELSE NatText(n \div 10) \o DigitText[(n % 10) + 1]

IntText(n) == IF n < 0 THEN "-" \o NatText(0 - n) ELSE NatText(n)

\* serde_json's Map is a BTreeMap: members are written in key order
KeyOrder == <<"a", "b", "code", "data", "fields", "items", "msg">>

RECURSIVE JoinText(_, _)
JoinText(s, sep) ==
    IF s = <<>> THEN ""
    ELSE IF Len(s) = 1 THEN s[1]
    ELSE s[1] \o sep \o JoinText(Tail(s), sep)

SelectKeys(order, D) == SelectSeq(order, LAMBDA k : k \in D)

\* serde_json::to_string of a Value
RECURSIVE to_string(_)
to_string(v) ==
    CASE v.t = "null" -> "null"
      [] v.t = "bool" -> IF v.b THEN "true" ELSE "false"
      [] v.t = "int" -> IntText(v.n)
      [] v.t = "biguint" -> "9223372036854775808"
      [] v.t = "float" -> v.f
      [] v.t = "str" -> "\"" \o v.s \o "\""
      [] v.t = "arr" ->
            "[" \o JoinText([i \in 1..Len(v.a) |-> to_string(v.a[i])], ",") \o "]"
      [] v.t = "obj" ->
            LET ks == SelectKeys(KeyOrder, DOMAIN v.o)
            IN  "{" \o JoinText([i \in 1..Len(ks) |->
                          "\"" \o ks[i] \o "\":" \o to_string(v.o[ks[i]])], ",")
                \o "}"

\* ---------------------------------------------------------- json_reformat
Ok(x) == [ok |-> TRUE, val |-> x]
Err(e) == [ok |-> FALSE, err |-> e]

DataError(p) == [kind |-> "DataError", node |-> p]

Min(a, b) == IF a < b THEN a ELSE b

\* lines 154-159: every entry of data.fields must be a string
RECURSIVE FieldLoop(_, _, _)
FieldLoop(fields_json, i, acc) ==
    IF i > Len(fields_json) THEN Ok(acc)
    ELSE IF ~as_str(fields_json[i]).some
         THEN Err(DataError("data/fields at " \o IntText(i - 1)))
         ELSE FieldLoop(fields_json, i + 1, Append(acc, as_str(fields_json[i]).val))

\* lines 167-170: fields.iter().zip(item_data.iter()), each pair inserted
RECURSIVE ZipInsert(_, _, _)
ZipInsert(flds, item_data, n) ==
    IF n = 0 THEN <<>>
    ELSE Insert(ZipInsert(flds, item_data, n - 1), flds[n], item_data[n])

zip_len_requiring_full(flds, item_data) ==
    IF Len(item_data) < Len(flds) THEN 0 ELSE Len(flds)

zip_len(flds, item_data) == Min(Len(flds), Len(item_data))

\* lines 163-172: every item must be an array; one row object per item
RECURSIVE ItemLoop(_, _, _, _)
ItemLoop(data, i, flds, acc) ==
    IF i > Len(data) THEN Ok(acc)
    ELSE IF ~as_array(data[i]).some
         THEN Err(DataError("data/items/" \o IntText(i - 1)
                            \o " is expected to be an array"))
         ELSE LET item_data == as_array(data[i]).val
                  item_json == ZipInsert(flds, item_data, zip_len(flds, item_data))
              IN  ItemLoop(data, i + 1, flds, Append(acc, JObj(item_json)))

json_reformat_items_first(resp) ==
    LET fields_json == as_array(Idx(Idx(resp, "data"), "fields"))
        data == as_array(Idx(Idx(resp, "data"), "items"))
    IN  IF ~data.some THEN Err(DataError("data/items"))
        ELSE IF ~fields_json.some THEN Err(DataError("data/fields"))
        ELSE LET fl == FieldLoop(fields_json.val, 1, <<>>)
             IN  IF ~fl.ok THEN fl
                 ELSE ItemLoop(data.val, 1, fl.val, <<>>)

json_reformat(resp) ==
    LET fields_json == as_array(Idx(Idx(resp, "data"), "fields"))
    IN  IF ~fields_json.some THEN Err(DataError("data/fields"))
        ELSE LET fl == FieldLoop(fields_json.val, 1, <<>>)
             IN  IF ~fl.ok THEN fl
                 ELSE LET data == as_array(Idx(Idx(resp, "data"), "items"))
                      IN  IF ~data.some THEN Err(DataError("data/items"))
                          ELSE ItemLoop(data.val, 1, fl.val, <<>>)

\* ------------------------------------------------- the server's responses
SeqsUpTo(S, n) == UNION {[1..m -> S] : m \in 0..n}

\* an object holding the members of s (a sequence of <<key, Option>>) that
\* are present
RECURSIVE ObjOf(_)
ObjOf(s) ==
    IF s = <<>> THEN <<>>
    ELSE LET n == Len(s)
             rest == ObjOf(SubSeq(s, 1, n - 1))
         IN  IF s[n][2].some THEN Insert(rest, s[n][1], s[n][2].val) ELSE rest

FieldEntries == {JStr("a"), JStr("b"), JInt(7)}
FieldArrays == SeqsUpTo(FieldEntries, MaxFields)
FieldsMembers == {None, Some(JStr("a,b"))} \cup {Some(JArr(f)) : f \in FieldArrays}

Row(base, len) == [i \in 1..len |-> JInt(base + i)]
Rows == {Row(b, l) : b \in {10, 20}, l \in 0..MaxRow}
ItemEntries == {JArr(r) : r \in Rows} \cup {JInt(5)}
ItemArrays == SeqsUpTo(ItemEntries, MaxItems)
ItemsMembers == {None, Some(JNull)} \cup {Some(JArr(it)) : it \in ItemArrays}

DataObj(f, it) == JObj(ObjOf(<<<<"fields", f>>, <<"items", it>>>>))
DataMembers ==
    {None, Some(JNull)} \cup {Some(DataObj(f, it)) : f \in FieldsMembers, it \in ItemsMembers}
SmallDataMembers ==
    {None,
     Some(DataObj(None, Some(JArr(<<>>)))),
     Some(DataObj(Some(JArr(<<JStr("a")>>)), Some(JArr(<<>>)))),
     Some(DataObj(Some(JArr(<<JStr("a")>>)), Some(JArr(<<JArr(Row(10, 1))>>))))}

CodeMembers == {None, Some(JNull), Some(JInt(0)), Some(JInt(18)), Some(JInt(0 - 2002)),
                Some(JStr("18")), Some(JFloat("1.5")), Some(JBigUInt)}
MsgMembers == {None, Some(JStr("invalid token")), Some(JStr("")), Some(JInt(5))}

Doc(c, m, d) == JObj(ObjOf(<<<<"code", c>>, <<"msg", m>>, <<"data", d>>>>))

Docs ==
    {Doc(Some(JInt(0)), Some(JStr("")), d) : d \in DataMembers}
    \cup {Doc(c, m, d) : c \in CodeMembers, m \in MsgMembers, d \in SmallDataMembers}
    \cup {JNull, JArr(<<>>)}

\* a response body: text that is JSON for doc, or text that is not JSON
NotJson == [json |-> FALSE]
JsonText(doc) == [json |-> TRUE, doc |-> doc]
Bodies == {NotJson} \cup {JsonText(d) : d \in Docs}

\* serde_json::from_str
from_str(text) == IF text.json THEN Ok(text.doc) ELSE Err([kind |-> "JsonError"])

\* --------------------------------------------------------------- query()
NetCauses == {"send", "status", "text"}

InitQuery ==
    /\ tushare \in {TushareNew(tk) : tk \in Tokens}
    /\ LET b1 == new("daily")
           b2 == addparam(b1, "trade_date", "20240424")
           b3 == fields(b2, "ts_code,open")
       IN  /\ builders = <<b1, b2, b3>>
           /\ path = <<<<>>,
                        <<[op |-> "addparam", from |-> 1, k |-> "trade_date", v |-> "20240424"]>>,
                        <<[op |-> "addparam", from |-> 1, k |-> "trade_date", v |-> "20240424"],
                          [op |-> "fields", from |-> 2, f |-> "ts_code,open"]>>>>
    /\ Idle

QuerySendFailRetrying(cause) ==
    /\ pc = "built"
    /\ posts' = posts + 1
    /\ http' = cause
    /\ log' = Append(log, "post")
    /\ IF posts = 0
       THEN pc' = "built" /\ UNCHANGED result
       ELSE pc' = "done" /\ result' = [kind |-> "NetworkError", cause |-> cause]
    /\ UNCHANGED <<tushare, builders, path, cur, request, resp_text,
                   resp_json, data_json, data_str>>

\* lines 186-192: send()?, error_for_status()? or text()? fails
QuerySendFail(cause) ==
    /\ pc = "built"
    /\ posts' = posts + 1
    /\ http' = cause
    /\ log' = Append(log, "post")
    /\ result' = [kind |-> "NetworkError", cause |-> cause]
    /\ pc' = "done"
    /\ UNCHANGED <<tushare, builders, path, cur, request, resp_text,
                   resp_json, data_json, data_str>>

\* lines 186-193: the POST succeeds with a 2xx status and a body
QuerySendOk ==
    /\ pc = "built"
    /\ \E body \in Bodies : resp_text' = Some(body)
    /\ posts' = posts + 1
    /\ http' = "ok"
    /\ log' = Append(log, "post")
    /\ pc' = "received"
    /\ UNCHANGED <<tushare, builders, path, cur, request, resp_json,
                   data_json, data_str, result>>

\* line 194
QueryDecode ==
    /\ pc = "received"
    /\ log' = Append(log, "parse")
    /\ LET r == from_str(resp_text.val)
       IN  IF r.ok
           THEN /\ resp_json' = r.val
                /\ pc' = "decoded"
                /\ UNCHANGED result
           ELSE /\ result' = r.err
                /\ pc' = "done"
                /\ UNCHANGED resp_json
    /\ UNCHANGED <<tushare, builders, path, cur, request, posts, http,
                   resp_text, data_json, data_str>>

RequestError(resp) ==
    [kind |-> "RequestError",
     code |-> unwrap_or(as_str(Idx(resp, "code")), "unknown"),
     msg |-> unwrap_or(as_str(Idx(resp, "msg")), "unknown")]

RejectsZeroToo(resp) == as_i64(Idx(resp, "code")).some

Rejects(resp) ==
    LET ret_code == as_i64(Idx(resp, "code"))
    IN  ret_code.some /\ ret_code.val # 0

\* lines 195-205
QueryCheckCode ==
    /\ pc = "decoded"
    /\ log' = Append(log, "code")
    /\ IF Rejects(resp_json)
       THEN /\ result' = RequestError(resp_json)
            /\ pc' = "done"
       ELSE /\ pc' = "accepted"
            /\ UNCHANGED result
    /\ UNCHANGED <<tushare, builders, path, cur, request, posts, http,
                   resp_text, resp_json, data_json, data_str>>

\* line 206
QueryReformat ==
    /\ pc = "accepted"
    /\ log' = Append(log, "reformat")
    /\ LET r == json_reformat(resp_json)
       IN  IF r.ok
           THEN /\ data_json' = r.val
                /\ pc' = "reshaped"
                /\ UNCHANGED result
           ELSE /\ result' = r.err
                /\ pc' = "done"
                /\ UNCHANGED data_json
    /\ UNCHANGED <<tushare, builders, path, cur, request, posts, http,
                   resp_text, resp_json, data_str>>

IsEmptyTextBlankOnly(s) == s = ""

IsEmptyText(s) == s = "" \/ s = "[]"

\* lines 207-211
QuerySerialize ==
    /\ pc = "reshaped"
    /\ log' = Append(log, "serialize")
    /\ data_str' = to_string(JArr(data_json))
    /\ IF IsEmptyText(data_str')
       THEN /\ result' = [kind |-> "EmptyError"]
            /\ pc' = "done"
       ELSE /\ pc' = "serialized"
            /\ UNCHANGED result
    /\ UNCHANGED <<tushare, builders, path, cur, request, posts, http,
                   resp_text, resp_json, data_json>>

\* lines 212-214: JsonReader::finish builds the dataframe or reports an error
QueryFinish(accepted) ==
    /\ pc = "serialized"
    /\ log' = Append(log, "materialize")
    /\ result' = IF accepted
                 THEN [kind |-> "Ok", text |-> data_str, height |-> Len(data_json)]
                 ELSE [kind |-> "PolarsError"]
    /\ pc' = "done"
    /\ UNCHANGED <<tushare, builders, path, cur, request, posts, http,
                   resp_text, resp_json, data_json, data_str>>

\* query() has returned; the caller may issue the next call
QueryReturn ==
    /\ pc = "done"
    /\ pc' = "idle" /\ cur' = 0 /\ request' = NoRequest /\ posts' = 0
    /\ http' = "none" /\ resp_text' = None /\ resp_json' = JNull
    /\ data_json' = <<>> /\ data_str' = "" /\ log' = <<>>
    /\ result' = NoResult
    /\ UNCHANGED <<tushare, builders, path>>

Next ==
    \/ \E i \in DOMAIN builders : QueryBuild(i)
    \/ \E c \in NetCauses : QuerySendFail(c)
    \/ QuerySendOk
    \/ QueryDecode
    \/ QueryCheckCode
    \/ QueryReformat
    \/ QuerySerialize
    \/ \E ok \in BOOLEAN : QueryFinish(ok)
    \/ QueryReturn

Spec == InitQuery /\ [][Next]_vars

\* ================================================================ claims
InLog(e) == \E n \in 1..Len(log) : log[n] = e
HasOp(pth, ops) == \E n \in 1..Len(pth) : pth[n].op \in ops
LastCall(j) == path[j][Len(path[j])]

CodeOf(resp) == Idx(resp, "code")
MsgOf(resp) == Idx(resp, "msg")
FieldsOf(resp) == Idx(Idx(resp, "data"), "fields")
ItemsOf(resp) == Idx(Idx(resp, "data"), "items")
IsIntCode(c) == c.t = "int" /\ c.n # 0

\* C1: when the decoded body's code is a non-zero integer, query() fails with
\* RequestError whose code is that integer written as text and whose msg is
\* the server's msg string unchanged.
C1_RejectedCarriesServerCode ==
    (pc = "done" /\ IsIntCode(CodeOf(resp_json)))
        => /\ result.kind = "RequestError"
           /\ result.code = IntText(CodeOf(resp_json).n)
           /\ (MsgOf(resp_json).t = "str" => result.msg = MsgOf(resp_json).s)

\* C2: no step changes a builder that already exists, nor the handle's token
\* and endpoint: a mutator only adds the derived builder.
C2_DerivingKeepsOriginals ==
    [][/\ \A i \in DOMAIN builders :
            i \in DOMAIN builders' /\ builders'[i] = builders[i]
       /\ tushare' = tushare]_vars

C2_Witness ==
    \E j \in DOMAIN builders :
        /\ path[j] # <<>>
        /\ builders[j] # builders[LastCall(j).from]
        /\ \E h \in DOMAIN builders :
              h > j /\ path[h] # <<>> /\ LastCall(h).from = j

\* C3: the builder returned by addparam(k, v) has the params of the builder
\* it was called on with k mapped to v and every other key kept; called on
\* a builder without params it has exactly {k -> v}.
C3_AddParamMerges ==
    \A j \in DOMAIN builders :
        (path[j] # <<>> /\ LastCall(j).op = "addparam") =>
            LET c == LastCall(j)
                M == builders[c.from].params
            IN  /\ builders[j].params.some
                /\ IF M.some
                   THEN /\ DOMAIN builders[j].params.val = DOMAIN M.val \cup {c.k}
                        /\ builders[j].params.val[c.k] = c.v
                        /\ \A x \in DOMAIN M.val \ {c.k} :
                              builders[j].params.val[x] = M.val[x]
                   ELSE /\ DOMAIN builders[j].params.val = {c.k}
                        /\ builders[j].params.val[c.k] = c.v

C3_Witness ==
    \E j \in DOMAIN builders :
        /\ path[j] # <<>> /\ LastCall(j).op = "addparam"
        /\ LET c == LastCall(j)
               M == builders[c.from].params
           IN  /\ M.some /\ DOMAIN M.val = Keys
               /\ M.val[c.k] # c.v
               /\ builders[j].params.val[c.k] = c.v
               /\ \E x \in Keys \ {c.k} : builders[j].params.val[x] = M.val[x]

\* C4: the builder returned by params(P) has params exactly P, whatever the
\* builder it was called on had accumulated.
C4_ParamsReplaces ==
    \A j \in DOMAIN builders :
        (path[j] # <<>> /\ LastCall(j).op = "params") =>
            builders[j].params = Some(LastCall(j).p)

C4_Witness ==
    \E j \in DOMAIN builders :
        /\ path[j] # <<>> /\ LastCall(j).op = "params"
        /\ LET c == LastCall(j)
               M == builders[c.from].params
           IN  /\ HasOp(path[c.from], {"addparam"})
               /\ M.some
               /\ \E x \in DOMAIN M.val : x \notin DOMAIN c.p
               /\ builders[j].params = Some(c.p)

\* C5: the envelope built by query() has api_name = the builder's api_name,
\* token = the handle's token, params = null exactly when no params/addparam
\* call lies on the builder's derivation path (else the builder's mapping) and
\* fields = null exactly when no fields call lies on it (else its string).
C5_EnvelopeOfBuilder ==
    (pc # "idle") =>
        LET b == builders[cur]
        IN  /\ DOMAIN request = {"api_name", "token", "params", "fields"}
            /\ request.api_name = JStr(b.api_name)
            /\ request.token = JStr(tushare.token)
            /\ (request.params = JNull) <=> ~HasOp(path[cur], {"params", "addparam"})
            /\ (request.params # JNull) =>
                  /\ b.params.some
                  /\ request.params = JObj([k \in DOMAIN b.params.val |->
                                               JStr(b.params.val[k])])
            /\ (request.fields = JNull) <=> ~HasOp(path[cur], {"fields"})
            /\ (request.fields # JNull) =>
                  b.fields.some /\ request.fields = JStr(b.fields.val)

C5_Witness ==
    /\ pc = "built"
    /\ HasOp(path[cur], {"params"})
    /\ ~HasOp(path[cur], {"fields"})
    /\ request.params = JObj(<<>>)
    /\ request.fields = JNull

WellShaped(resp) ==
    /\ FieldsOf(resp).t = "arr"
    /\ \A i \in 1..Len(FieldsOf(resp).a) : FieldsOf(resp).a[i].t = "str"
    /\ ItemsOf(resp).t = "arr"
    /\ \A j \in 1..Len(ItemsOf(resp).a) : ItemsOf(resp).a[j].t = "arr"

FieldName(resp, i) == FieldsOf(resp).a[i].s
ItemRow(resp, j) == ItemsOf(resp).a[j].a
Width(resp, j) == Min(Len(FieldsOf(resp).a), Len(ItemRow(resp, j)))

\* C6 as stated: for fields F (strings) and items R (arrays), reshaping gives
\* |R| rows in order, row j maps F[i] to R[j][i] for every i below
\* min(|F|, |R[j]|) and has no other entry.
C6_RowsZipEveryPosition ==
    (InLog("reformat") /\ WellShaped(resp_json)) =>
        /\ result.kind # "DataError"
        /\ Len(data_json) = Len(ItemsOf(resp_json).a)
        /\ \A j \in 1..Len(data_json) :
              /\ data_json[j].t = "obj"
              /\ DOMAIN data_json[j].o =
                    {FieldName(resp_json, i) : i \in 1..Width(resp_json, j)}
              /\ \A i \in 1..Width(resp_json, j) :
                    data_json[j].o[FieldName(resp_json, i)] = ItemRow(resp_json, j)[i]

\* C6 amended: as above, except that a field name occurring more than once
\* among the first min(|F|, |R[j]|) names is mapped to the value at its last
\* such position.
C6_RowsZipLastPosition ==
    (InLog("reformat") /\ WellShaped(resp_json)) =>
        /\ result.kind # "DataError"
        /\ Len(data_json) = Len(ItemsOf(resp_json).a)
        /\ \A j \in 1..Len(data_json) :
              /\ data_json[j].t = "obj"
              /\ DOMAIN data_json[j].o =
                    {FieldName(resp_json, i) : i \in 1..Width(resp_json, j)}
              /\ \A i \in 1..Width(resp_json, j) :
                    (\A h \in (i + 1)..Width(resp_json, j) :
                        FieldName(resp_json, h) # FieldName(resp_json, i))
                    => data_json[j].o[FieldName(resp_json, i)] = ItemRow(resp_json, j)[i]

C6_Witness ==
    /\ InLog("reformat") /\ WellShaped(resp_json)
    /\ Len(data_json) = 2
    /\ Len(FieldsOf(resp_json).a) = 2
    /\ FieldName(resp_json, 1) # FieldName(resp_json, 2)
    /\ Len(ItemRow(resp_json, 1)) = 2
    /\ Len(ItemRow(resp_json, 2)) = 1
    /\ DOMAIN data_json[2].o = {FieldName(resp_json, 1)}

\* C7: dataframe construction is reached only with at least one reshaped row;
\* a response that passes the code check and validation with empty data.items
\* ends in EmptyError without dataframe construction.
C7_NoMaterializationOfEmpty ==
    /\ (InLog("materialize") \/ pc = "serialized" \/ result.kind \in {"Ok", "PolarsError"})
          => Len(data_json) >= 1
    /\ (InLog("serialize") /\ ItemsOf(resp_json) = JArr(<<>>))
          => /\ pc = "done"
             /\ result.kind = "EmptyError"
             /\ ~InLog("materialize")

C7_Witness ==
    /\ result.kind = "EmptyError"
    /\ FieldsOf(resp_json).t = "arr" /\ Len(FieldsOf(resp_json).a) >= 1
    /\ ItemsOf(resp_json) = JArr(<<>>)

FirstBad(a, tag) == CHOOSE i \in 1..Len(a) :
                        a[i].t # tag /\ \A h \in 1..(i - 1) : a[h].t = tag
AllAre(a, tag) == \A i \in 1..Len(a) : a[i].t = tag

\* C8: after the code check, validation reports the first failing check in
\* the order data/fields, entries of data.fields, data/items, entries of
\* data.items, naming the path or the index of the first offending entry, and
\* no rows are produced.
C8_FirstFailingCheckNamed ==
    InLog("reformat") =>
        LET f == FieldsOf(resp_json)
            it == ItemsOf(resp_json)
        IN  /\ f.t # "arr" => result = DataError("data/fields")
            /\ (f.t = "arr" /\ ~AllAre(f.a, "str")) =>
                  result = DataError("data/fields at " \o IntText(FirstBad(f.a, "str") - 1))
            /\ (f.t = "arr" /\ AllAre(f.a, "str") /\ it.t # "arr") =>
                  result = DataError("data/items")
            /\ (f.t = "arr" /\ AllAre(f.a, "str") /\ it.t = "arr" /\ ~AllAre(it.a, "arr")) =>
                  result = DataError("data/items/" \o IntText(FirstBad(it.a, "arr") - 1)
                                     \o " is expected to be an array")
            /\ ~WellShaped(resp_json) =>
                  pc = "done" /\ data_json = <<>> /\ ~InLog("serialize")

C8_Witness ==
    /\ InLog("reformat")
    /\ FieldsOf(resp_json).t = "arr" /\ Len(FieldsOf(resp_json).a) = 2
    /\ FieldsOf(resp_json).a[1].t = "str" /\ FieldsOf(resp_json).a[2].t # "str"
    /\ ItemsOf(resp_json).t # "arr"
    /\ result = DataError("data/fields at 1")

\* C9: a POST that fails (transport, non-2xx status, body read) ends the call
\* with NetworkError right after the single POST: no second POST, no parsing,
\* no other error kind; no call makes more than one POST.
C9_NetworkFailureIsTerminal ==
    /\ posts <= 1
    /\ Cardinality({n \in 1..Len(log) : log[n] = "post"}) <= 1
    /\ http \in NetCauses =>
          /\ pc = "done"
          /\ result.kind = "NetworkError"
          /\ log = <<"build", "post">>
          /\ resp_text = None /\ resp_json = JNull /\ data_json = <<>>

C9_Witness ==
    /\ pc = "done" /\ http = "send" /\ posts = 1
    /\ result.kind = "NetworkError"

IsNumber(c) == c.t \in {"int", "biguint", "float"}

====
